---- MODULE Spec2Model ----
(***************************************************************************)
(* Model of todo.rs, a single-file ToDo command-line tool.                 *)
(*                                                                         *)
(* One invocation of the program loads tasks.json, applies one command to  *)
(* the in-memory Vec<Task> and, for the mutating commands, writes the      *)
(* whole collection back.  Every command action below is one whole run of  *)
(* main() with that command; Exit is the end of the process, after which   *)
(* only the file is left and the next invocation can start.  The backing   *)
(* file is modelled by its contents: a sequence of JSON tokens, so that a  *)
(* truncated or partly written file is a value of its own and load_tasks   *)
(* has a real parse to do.                                                 *)
(***************************************************************************)
EXTENDS Integers, Sequences, FiniteSets, TLC

(***************************************************************************)
(* Bounds of the model.                                                    *)
(***************************************************************************)
\* Largest value of the id type.  The program's usize has 64 bits; the model
\* keeps the wrap-around arithmetic on a narrower type, ids 0..UsizeMax.
UsizeMax == 3

\* Largest number of tasks the collection is allowed to grow to.
MaxTasks == 2

\* Largest number of tasks in a file that was edited by hand.
MaxEdited == 2

\* Argument vectors of `add`: no argument, one empty argument, two words.
ArgLists == {<<>>, <<"">>, <<"a", "b">>}

\* Argument vectors of `add` in runs that start from a hand-edited file.
EditedArgLists == {<<"a", "b">>}

\* Values of the <id> argument of `done` and `remove`.
Ids == 0..UsizeMax

(***************************************************************************)
(* State.                                                                  *)
(***************************************************************************)
VARIABLES
    disk,        \* tasks.json: [exists, data], data a sequence of tokens
    cmd,         \* cli.cmd of the invocation; op = "none" when no process runs
    before,      \* tasks.json as it was when the invocation started
    loaded,      \* what load_tasks returned
    tasks,       \* main's `tasks` when the command's branch is through
    result,      \* how main ended: ok, load_error, not_found, save_error, panic
    exit_code,   \* exit status of the process
    stdout,      \* lines printed by println!
    stderr,      \* lines printed by eprintln!
    save_calls,  \* number of save_tasks calls
    assigned,    \* the id next_id returned, if Add got that far
    max_issued,  \* largest id a successful Add has assigned so far, 0 if none
    prior,       \* the invocation before this one, when it was a
                 \* successful Remove or Clear: [op, id]
    last_saved,  \* the collection of the last save_tasks that returned Ok
                 \* in an invocation before this one, while the file still
                 \* holds what it wrote
    order,       \* ids of the tasks added and not removed or lost since, in
                 \* the order of their Adds
    procs,       \* two invocations that run at the same time: per process
                 \* its position in main and its memory
    syscalls     \* their File::create and write_all calls, in order

vars == <<disk, cmd, before, loaded, tasks, result, exit_code, stdout, stderr,
          save_calls, assigned, max_issued, prior, last_saved, order,
          procs, syscalls>>

(***************************************************************************)
(* struct Task                                                             *)
(***************************************************************************)
Task(id, description, done) ==
    [id |-> id, description |-> description, done |-> done]

RECURSIVE MaxOf(_)
\* tasks.iter().map(|t| t.id).max().unwrap_or(0)
MaxOf(ts) ==
    IF ts = <<>> THEN 0
    ELSE LET m == MaxOf(Tail(ts)) IN IF Head(ts).id > m THEN Head(ts).id ELSE m

IdsOf(ts) == {ts[i].id : i \in 1..Len(ts)}

(***************************************************************************)
(* serde_json: the text of tasks.json as a sequence of tokens.  A field    *)
(* token stands for `"key": value` with its separator.                     *)
(***************************************************************************)
Tok(k) == [k |-> k, n |-> 0, s |-> "", b |-> FALSE]
LBracket == Tok("[")
RBracket == Tok("]")
LBrace == Tok("{")
RBrace == Tok("}")
IdField(n) == [k |-> "id", n |-> n, s |-> "", b |-> FALSE]
DescriptionField(s) == [k |-> "description", n |-> 0, s |-> s, b |-> FALSE]
DoneField(b) == [k |-> "done", n |-> 0, s |-> "", b |-> b]

\* A Serialize that skips the done field.
SerializeTask_skip_done(t) ==
    <<LBrace, IdField(t.id), DescriptionField(t.description), RBrace>>

\* #[derive(Serialize)] for Task: the fields in declaration order.
SerializeTask(t) ==
    <<LBrace, IdField(t.id), DescriptionField(t.description), DoneField(t.done), RBrace>>

RECURSIVE SerializeSeq(_)
SerializeSeq(ts) ==
    IF ts = <<>> THEN <<>> ELSE SerializeTask(Head(ts)) \o SerializeSeq(Tail(ts))

\* serde_json::to_string_pretty(tasks)
to_string_pretty(ts) == <<LBracket>> \o SerializeSeq(ts) \o <<RBracket>>

\* Index of the first "}" at or after position i, 0 when there is none.
RECURSIVE FindRBrace(_, _)
FindRBrace(toks, i) ==
    IF i > Len(toks) THEN 0
    ELSE IF toks[i].k = "}" THEN i
    ELSE FindRBrace(toks, i + 1)

\* #[derive(Deserialize)] for Task: the three fields, each exactly once, in
\* any order.
DeserializeTask(fields) ==
    LET keyed(key) == {i \in 1..Len(fields) : fields[i].k = key}
        ok == /\ Len(fields) = 3
              /\ \A key \in {"id", "description", "done"} : Cardinality(keyed(key)) = 1
        at(key) == fields[CHOOSE i \in keyed(key) : TRUE]
    IN IF ok
       THEN [ok |-> TRUE,
             task |-> Task(at("id").n, at("description").s, at("done").b)]
       ELSE [ok |-> FALSE, task |-> Task(0, "", FALSE)]

\* The elements of the array from position i on, up to the closing "]",
\* which has to be the last token.
RECURSIVE DeserializeSeq(_, _, _)
DeserializeSeq(toks, i, acc) ==
    IF i > Len(toks) THEN [ok |-> FALSE, tasks |-> <<>>]
    ELSE IF toks[i] = RBracket
         THEN IF i = Len(toks) THEN [ok |-> TRUE, tasks |-> acc]
              ELSE [ok |-> FALSE, tasks |-> <<>>]
    ELSE IF toks[i] # LBrace THEN [ok |-> FALSE, tasks |-> <<>>]
    ELSE LET j == FindRBrace(toks, i + 1) IN
         IF j = 0 THEN [ok |-> FALSE, tasks |-> <<>>]
         ELSE LET t == DeserializeTask(SubSeq(toks, i + 1, j - 1)) IN
              IF t.ok THEN DeserializeSeq(toks, j + 1, Append(acc, t.task))
              ELSE [ok |-> FALSE, tasks |-> <<>>]

\* serde_json::from_reader::<Vec<Task>>
from_reader(toks) ==
    IF toks = <<>> \/ Head(toks) # LBracket THEN [ok |-> FALSE, tasks |-> <<>>]
    ELSE DeserializeSeq(toks, 2, <<>>)

(***************************************************************************)
(* Store: load_tasks and save_tasks.                                       *)
(***************************************************************************)
Absent == [exists |-> FALSE, data |-> <<>>]
FileOf(toks) == [exists |-> TRUE, data |-> toks]

\* A load_tasks that takes a file it cannot parse for an empty collection.
load_tasks_lenient(file, io_ok) ==
    IF ~io_ok THEN [ok |-> FALSE, tasks |-> <<>>]
    ELSE IF ~file.exists THEN [ok |-> TRUE, tasks |-> <<>>]
    ELSE [ok |-> TRUE, tasks |-> from_reader(file.data).tasks]

\* load_tasks().  io_ok is FALSE when data_file() or File::open fails.
load_tasks(file, io_ok) ==
    IF ~io_ok THEN [ok |-> FALSE, tasks |-> <<>>]
    ELSE IF ~file.exists THEN [ok |-> TRUE, tasks |-> <<>>]
    ELSE from_reader(file.data)

\* The ways save_tasks can go: no fault, data_file() fails, File::create
\* fails, or write_all fails after `written` tokens reached the file.
SaveFaults(ts) ==
    {[at |-> a, written |-> 0] : a \in {"none", "data_file", "create"}}
      \cup {[at |-> "write_all", written |-> k] : k \in 0..(Len(to_string_pretty(ts)) - 1)}

\* save_tasks(tasks): File::create truncates the file, write_all then fills it.
save_tasks(file, ts, fault) ==
    LET data == to_string_pretty(ts) IN
    CASE fault.at = "data_file" -> [ok |-> FALSE, file |-> file]
      [] fault.at = "create"    -> [ok |-> FALSE, file |-> file]
      [] fault.at = "write_all" -> [ok |-> FALSE,
                                    file |-> FileOf(SubSeq(data, 1, fault.written))]
      [] OTHER                  -> [ok |-> TRUE, file |-> FileOf(data)]

(***************************************************************************)
(* Command Processor helpers.                                              *)
(***************************************************************************)
\* description.join(" ")
RECURSIVE join(_, _)
join(words, sep) ==
    IF words = <<>> THEN ""
    ELSE IF Len(words) = 1 THEN Head(words)
    ELSE Head(words) \o sep \o join(Tail(words), sep)

\* A next_id that counts the tasks instead of taking the largest id.
next_id_len(ts, overflow_checks) ==
    [panic |-> FALSE, id |-> (Len(ts) + 1) % (UsizeMax + 1)]

\* next_id(tasks): max + 1 on usize.  With overflow checks (debug build) the
\* addition panics on overflow, without them (release build) it wraps.
next_id(ts, overflow_checks) ==
    LET sum == MaxOf(ts) + 1 IN
    IF sum > UsizeMax
    THEN IF overflow_checks THEN [panic |-> TRUE, id |-> 0]
         ELSE [panic |-> FALSE, id |-> sum % (UsizeMax + 1)]
    ELSE [panic |-> FALSE, id |-> sum]

\* The build profile only shows when the addition overflows.
BuildProfiles(ts) == IF MaxOf(ts) = UsizeMax THEN BOOLEAN ELSE {FALSE}

\* A push that puts the new task first.
push_front(ts, id, desc) == <<Task(id, desc, FALSE)>> \o ts

\* tasks.push(Task { id, description, done: false })
push(ts, id, desc) == Append(ts, Task(id, desc, FALSE))

\* A find that compares with >= instead of ==.
find_ge(ts, id) ==
    IF \E i \in 1..Len(ts) : ts[i].id >= id
    THEN CHOOSE i \in 1..Len(ts) :
            /\ ts[i].id >= id
            /\ \A j \in 1..(i - 1) : ~(ts[j].id >= id)
    ELSE 0

\* tasks.iter_mut().find(|t| t.id == id): index of the first match, 0 if none.
find(ts, id) ==
    IF \E i \in 1..Len(ts) : ts[i].id = id
    THEN CHOOSE i \in 1..Len(ts) :
            /\ ts[i].id = id
            /\ \A j \in 1..(i - 1) : ts[j].id # id
    ELSE 0

\* A Done that flips the flag instead of setting it.
mark_done_toggle(ts, i) == [ts EXCEPT ![i].done = ~ts[i].done]

\* A Done that marks every task that has the id of the one found.
mark_done_all(ts, i) ==
    [k \in 1..Len(ts) |->
        IF ts[k].id = ts[i].id THEN [ts[k] EXCEPT !.done = TRUE] ELSE ts[k]]

\* t.done = true on the task found
mark_done(ts, i) == [ts EXCEPT ![i].done = TRUE]

\* A Remove that deletes the first matching task only.
retain_first(ts, id) ==
    IF \E i \in 1..Len(ts) : ts[i].id = id
    THEN LET i == CHOOSE k \in 1..Len(ts) :
                     ts[k].id = id /\ \A j \in 1..(k - 1) : ts[j].id # id
         IN SubSeq(ts, 1, i - 1) \o SubSeq(ts, i + 1, Len(ts))
    ELSE ts

\* tasks.retain(|t| t.id != id)
retain(ts, id) == SelectSeq(ts, LAMBDA t : t.id # id)

\* A Clear that drops the last task only.
clear_pop(ts) == IF ts = <<>> THEN <<>> ELSE SubSeq(ts, 1, Len(ts) - 1)

\* tasks.clear()
clear(ts) == <<>>

\* The lines the List branch prints.
RECURSIVE list_lines(_)
list_lines(ts) ==
    IF ts = <<>> THEN <<>>
    ELSE LET t == Head(ts)
             mark == IF t.done THEN "[x]" ELSE "[ ]"
         IN <<mark \o " " \o ToString(t.id) \o ": " \o t.description>>
              \o list_lines(Tail(ts))

\* What the next invocation finds this one to have been.
Latest ==
    IF result = "ok" /\ cmd.op \in {"remove", "clear"}
    THEN [op |-> cmd.op, id |-> cmd.id]
    ELSE [op |-> "other", id |-> 0]

Command(op, description, id) == [op |-> op, description |-> description, id |-> id]

(***************************************************************************)
(* Ends of main().                                                         *)
(***************************************************************************)
\* load_tasks() returned Err: eprintln! and exit(1), nothing else happens.
LoadFailed(c, l) ==
    /\ cmd' = c
    /\ before' = disk
    /\ loaded' = l
    /\ tasks' = <<>>
    /\ result' = "load_error"
    /\ exit_code' = 1
    /\ stdout' = <<>>
    /\ stderr' = <<"Error loading tasks">>
    /\ save_calls' = 0
    /\ assigned' = {}
    /\ disk' = disk
    /\ max_issued' = max_issued
    /\ prior' = prior
    /\ UNCHANGED <<last_saved, order, procs, syscalls>>

\* The addition in next_id panicked: the process aborts with status 101.
Panicked(c, l) ==
    /\ cmd' = c
    /\ before' = disk
    /\ loaded' = l
    /\ tasks' = l.tasks
    /\ result' = "panic"
    /\ exit_code' = 101
    /\ stdout' = <<>>
    /\ stderr' = <<"attempt to add with overflow">>
    /\ save_calls' = 0
    /\ assigned' = {}
    /\ disk' = disk
    /\ max_issued' = max_issued
    /\ prior' = prior
    /\ UNCHANGED <<last_saved, order, procs, syscalls>>

\* The branch returned Err without saving (task not found), or Ok without
\* saving (List).
NoSave(c, l, ts, res, out, err) ==
    /\ cmd' = c
    /\ before' = disk
    /\ loaded' = l
    /\ tasks' = ts
    /\ result' = res
    /\ exit_code' = IF res = "ok" THEN 0 ELSE 1
    /\ stdout' = out
    /\ stderr' = err
    /\ save_calls' = 0
    /\ assigned' = {}
    /\ disk' = disk
    /\ max_issued' = max_issued
    /\ prior' = prior
    /\ UNCHANGED <<last_saved, order, procs, syscalls>>

\* The ids of the tasks that are left, in the order of their Adds, after the
\* command c went through; ids holds the id of the new task of an Add.
Surviving(ids_in_order, c, ids) ==
    CASE c.op = "add"    -> ids_in_order \o <<CHOOSE id \in ids : TRUE>>
      [] c.op = "remove" -> SelectSeq(ids_in_order, LAMBDA id : id # c.id)
      [] c.op = "clear"  -> <<>>
      [] OTHER           -> ids_in_order

\* The branch called save_tasks(&tasks) and mapped its result.
Saved(c, l, ts, fault, out, ids) ==
    \E s \in {save_tasks(disk, ts, fault)} :
    /\ cmd' = c
    /\ before' = disk
    /\ loaded' = l
    /\ tasks' = ts
    /\ result' = IF s.ok THEN "ok" ELSE "save_error"
    /\ exit_code' = IF s.ok THEN 0 ELSE 1
    /\ stdout' = IF s.ok THEN <<out>> ELSE <<>>
    /\ stderr' = IF s.ok THEN <<>> ELSE <<"Error: Save error">>
    /\ save_calls' = 1
    /\ assigned' = ids
    /\ disk' = s.file
    /\ max_issued' = IF s.ok /\ \E id \in ids : id > max_issued
                    THEN CHOOSE id \in ids : id > max_issued
                    ELSE max_issued
    /\ prior' = prior
    /\ order' = IF s.ok THEN Surviving(order, c, ids)
                ELSE IF s.file = disk THEN order
                ELSE <<>>
    /\ UNCHANGED <<last_saved, procs, syscalls>>

(***************************************************************************)
(* The five commands: main() with cli.cmd fixed.  A command starts when no *)
(* process is running; the invocations of one user follow each other.      *)
(***************************************************************************)
NoProcess == cmd.op = "none"

\* The collection on disk, <<>> when the file is absent or does not parse.
Persisted == load_tasks(disk, TRUE).tasks
Readable == load_tasks(disk, TRUE).ok

\* The model stops adding when the collection holds MaxTasks tasks, and when
\* the largest id on disk has reached id_cap.
HasRoom(id_cap) == Len(Persisted) < MaxTasks /\ MaxOf(Persisted) < id_cap

Add(description, id_cap) ==
    /\ NoProcess
    /\ HasRoom(id_cap)
    /\ \E io_ok \in BOOLEAN :
        \E c \in {Command("add", description, 0)}, l \in {load_tasks(disk, io_ok)} :
           IF ~l.ok THEN LoadFailed(c, l)
           ELSE \E overflow_checks \in BuildProfiles(l.tasks) :
                LET desc == join(description, " ")
                    n == next_id(l.tasks, overflow_checks)
                IN IF n.panic THEN Panicked(c, l)
                   ELSE \E ts \in {push(l.tasks, n.id, desc)} :
                        \E fault \in SaveFaults(ts) :
                            Saved(c, l, ts, fault,
                                  "[+] Added #" \o ToString(n.id) \o ": " \o desc,
                                  {n.id})

\* A List that writes back the collection it loaded.
List_saving ==
    /\ NoProcess
    /\ \E io_ok \in BOOLEAN :
        \E c \in {Command("list", <<>>, 0)}, l \in {load_tasks(disk, io_ok)} :
           IF ~l.ok THEN LoadFailed(c, l)
           ELSE Saved(c, l, l.tasks, [at |-> "none", written |-> 0],
                      "No tasks found.", {})

List ==
    /\ NoProcess
    /\ \E io_ok \in BOOLEAN :
        \E c \in {Command("list", <<>>, 0)}, l \in {load_tasks(disk, io_ok)} :
           IF ~l.ok THEN LoadFailed(c, l)
           ELSE IF l.tasks = <<>>
                THEN NoSave(c, l, l.tasks, "ok", <<"No tasks found.">>, <<>>)
                ELSE NoSave(c, l, l.tasks, "ok", list_lines(l.tasks), <<>>)

\* The check mark of the source's message is written v here.
Done(id) ==
    /\ NoProcess
    /\ \E io_ok \in BOOLEAN :
        \E c \in {Command("done", <<>>, id)}, l \in {load_tasks(disk, io_ok)} :
           IF ~l.ok THEN LoadFailed(c, l)
           ELSE \E i \in {find(l.tasks, id)} :
                IF i # 0
                THEN \E ts \in {mark_done(l.tasks, i)} :
                     \E fault \in SaveFaults(ts) :
                         Saved(c, l, ts, fault,
                               "[v] Marked #" \o ToString(id) \o " done.", {})
                ELSE NoSave(c, l, l.tasks, "not_found", <<>>,
                            <<"Error: Task #" \o ToString(id) \o " not found.">>)

Remove(id) ==
    /\ NoProcess
    /\ \E io_ok \in BOOLEAN :
        \E c \in {Command("remove", <<>>, id)}, l \in {load_tasks(disk, io_ok)} :
           IF ~l.ok THEN LoadFailed(c, l)
           ELSE \E original \in {Len(l.tasks)}, ts \in {retain(l.tasks, id)} :
                   IF Len(ts) < original
                   THEN \E fault \in SaveFaults(ts) :
                            Saved(c, l, ts, fault,
                                  "[-] Removed #" \o ToString(id) \o ".", {})
                   ELSE NoSave(c, l, ts, "not_found", <<>>,
                               <<"Error: Task #" \o ToString(id) \o " not found.">>)

Clear ==
    /\ NoProcess
    /\ \E io_ok \in BOOLEAN :
        \E c \in {Command("clear", <<>>, 0)}, l \in {load_tasks(disk, io_ok)} :
           IF ~l.ok THEN LoadFailed(c, l)
           ELSE \E ts \in {clear(l.tasks)} :
                \E fault \in SaveFaults(ts) :
                    Saved(c, l, ts, fault, "[!] All tasks cleared.", {})

(***************************************************************************)
(* Specifications.                                                         *)
(***************************************************************************)
\* No process: nothing in memory, nothing printed.
NoInvocation ==
    /\ cmd = Command("none", <<>>, 0)
    /\ before = Absent
    /\ loaded = [ok |-> TRUE, tasks |-> <<>>]
    /\ tasks = <<>>
    /\ result = "none"
    /\ exit_code = 0
    /\ stdout = <<>>
    /\ stderr = <<>>
    /\ save_calls = 0
    /\ assigned = {}

\* The process ends (main returns, exit(1), or the panic unwinds): its memory
\* is gone and tasks.json is all that is left for the next invocation.
Exit ==
    /\ ~NoProcess
    /\ cmd' = Command("none", <<>>, 0)
    /\ before' = Absent
    /\ loaded' = [ok |-> TRUE, tasks |-> <<>>]
    /\ tasks' = <<>>
    /\ result' = "none"
    /\ exit_code' = 0
    /\ stdout' = <<>>
    /\ stderr' = <<>>
    /\ save_calls' = 0
    /\ assigned' = {}
    /\ prior' = Latest
    /\ last_saved' = IF result = "ok" /\ save_calls = 1
                     THEN [some |-> TRUE, tasks |-> tasks]
                     ELSE IF disk # before
                     THEN [some |-> FALSE, tasks |-> <<>>]
                     ELSE last_saved
    /\ UNCHANGED <<disk, max_issued, order, procs, syscalls>>

\* The two processes of the concurrent runs, and a process that has not
\* started.
Procs == {1, 2}
IdleProc ==
    [pc |-> "idle", cmd |-> Command("none", <<>>, 0), loaded |-> <<>>,
     tasks |-> <<>>, result |-> "none"]
NoRace ==
    /\ procs = [p \in Procs |-> IdleProc]
    /\ syscalls = <<>>

NoHistory ==
    /\ max_issued = 0
    /\ prior = [op |-> "other", id |-> 0]
    /\ last_saved = [some |-> FALSE, tasks |-> <<>>]
    /\ order = <<>>

\* First run: no tasks.json yet.  Ids are given out up to UsizeMax, so that
\* next_id does not overflow: a run of the program gets there only after as
\* many Adds as the id type has values.
Init ==
    /\ disk = Absent
    /\ NoInvocation
    /\ NoHistory
    /\ NoRace

Next ==
    \/ \E description \in ArgLists : Add(description, UsizeMax)
    \/ List
    \/ \E id \in Ids : Done(id)
    \/ \E id \in Ids : Remove(id)
    \/ Clear
    \/ Exit

Spec == Init /\ [][Next]_vars

\* Files somebody else wrote: any collection over the id type, in any order,
\* with gaps and duplicates, and files that are not a JSON array of tasks.
EditedTasks == {Task(id, d, b) : id \in Ids, d \in {"a"}, b \in BOOLEAN}
EditedCollections ==
    UNION {[1..n -> EditedTasks] : n \in 0..MaxEdited}
EditedFiles ==
    {Absent, FileOf(<<>>), FileOf(<<LBracket, LBrace>>)}
      \cup {FileOf(to_string_pretty(ts)) : ts \in EditedCollections}

InitEdited ==
    /\ disk \in EditedFiles
    /\ NoInvocation
    /\ NoHistory
    /\ NoRace

NextEdited ==
    \/ \E description \in EditedArgLists : Add(description, UsizeMax + 1)
    \/ List
    \/ \E id \in Ids : Done(id)
    \/ \E id \in Ids : Remove(id)
    \/ Clear
    \/ Exit

\* Here Add also runs on a collection that holds the largest id.
SpecEdited == InitEdited /\ [][NextEdited]_vars

(***************************************************************************)
(* Two invocations at the same time.  Nothing in main() synchronises two   *)
(* processes, so what one does to tasks.json is visible to the other       *)
(* between any two of its file system calls: load_tasks reads the file,    *)
(* File::create truncates it, write_all fills it.  What happens in memory  *)
(* between these calls is private to the process and is part of the step   *)
(* of the call before it.  These runs are without I/O errors.              *)
(***************************************************************************)
\* File::create(path): the file is created, or truncated when it exists.
create(file) == FileOf(<<>>)

\* file.write_all(json.as_bytes()) on the handle File::create returned: the
\* bytes go to the start of the file, over what is there; what the file
\* holds beyond them stays.
write_all(file, data) ==
    FileOf(data \o SubSeq(file.data, Len(data) + 1, Len(file.data)))

\* The branch of cli.cmd on the Vec that was loaded, up to its save_tasks
\* call: whether it got that far, and the Vec it has then.
Branch(c, ts) ==
    CASE c.op = "add" ->
           [result |-> "ok", save |-> TRUE,
            tasks |-> push(ts, next_id(ts, FALSE).id, join(c.description, " "))]
      [] c.op = "done" ->
           LET i == find(ts, c.id) IN
           IF i # 0
           THEN [result |-> "ok", save |-> TRUE, tasks |-> mark_done(ts, i)]
           ELSE [result |-> "not_found", save |-> FALSE, tasks |-> ts]
      [] c.op = "remove" ->
           LET kept == retain(ts, c.id) IN
           IF Len(kept) < Len(ts)
           THEN [result |-> "ok", save |-> TRUE, tasks |-> kept]
           ELSE [result |-> "not_found", save |-> FALSE, tasks |-> kept]
      [] c.op = "clear" ->
           [result |-> "ok", save |-> TRUE, tasks |-> clear(ts)]
      [] OTHER ->
           [result |-> "ok", save |-> FALSE, tasks |-> ts]

\* What the single invocations leave untouched here.
sequential == <<cmd, before, loaded, tasks, result, exit_code, stdout, stderr,
                save_calls, assigned, max_issued, prior, last_saved, order>>

\* Process p starts with command c: load_tasks(), then the branch up to its
\* save_tasks call, or to the end when it does not save.  As in the single
\* invocations from no file, Add stops before next_id would overflow.
ProcLoad(p, c) ==
    /\ procs[p].pc = "idle"
    /\ c.op = "add" => MaxOf(Persisted) < UsizeMax
    /\ \E l \in {load_tasks(disk, TRUE)} :
         IF ~l.ok
         THEN procs' = [procs EXCEPT ![p] =
                  [pc |-> "exited", cmd |-> c, loaded |-> <<>>, tasks |-> <<>>,
                   result |-> "load_error"]]
         ELSE \E b \in {Branch(c, l.tasks)} :
              procs' = [procs EXCEPT ![p] =
                  [pc |-> IF b.save THEN "save_tasks" ELSE "exited",
                   cmd |-> c, loaded |-> l.tasks, tasks |-> b.tasks,
                   result |-> IF b.save THEN "none" ELSE b.result]]
    /\ UNCHANGED <<disk, syscalls>>
    /\ UNCHANGED sequential

\* save_tasks of process p, first half: File::create.
ProcCreate(p) ==
    /\ procs[p].pc = "save_tasks"
    /\ disk' = create(disk)
    /\ procs' = [procs EXCEPT ![p].pc = "write_all"]
    /\ syscalls' = Append(syscalls, [p |-> p, call |-> "create"])
    /\ UNCHANGED sequential

\* save_tasks of process p, second half: serialise and write_all; main then
\* prints the confirmation and returns.
ProcWrite(p) ==
    /\ procs[p].pc = "write_all"
    /\ disk' = write_all(disk, to_string_pretty(procs[p].tasks))
    /\ procs' = [procs EXCEPT ![p].pc = "exited", ![p].result = "ok"]
    /\ syscalls' = Append(syscalls, [p |-> p, call |-> "write_all"])
    /\ UNCHANGED sequential

\* The files the two processes find: none, and three that single invocations
\* wrote.
ConcCollections ==
    {<<>>,
     <<Task(1, "a b", FALSE)>>,
     <<Task(1, "a b", TRUE), Task(2, "", FALSE)>>}
ConcFiles == {Absent} \cup {FileOf(to_string_pretty(ts)) : ts \in ConcCollections}

\* The commands they run.
ConcCommands ==
    {Command("add", <<"a", "b">>, 0), Command("add", <<"c">>, 0),
     Command("list", <<>>, 0), Command("clear", <<>>, 0)}
      \cup {Command(op, <<>>, id) : op \in {"done", "remove"}, id \in {1, 2}}

InitConc ==
    /\ disk \in ConcFiles
    /\ NoInvocation
    /\ NoHistory
    /\ NoRace

NextConc ==
    \/ \E p \in Procs, c \in ConcCommands : ProcLoad(p, c)
    \/ \E p \in Procs : ProcCreate(p)
    \/ \E p \in Procs : ProcWrite(p)

SpecConc == InitConc /\ [][NextConc]_vars

TypeOK ==
    /\ disk.exists \in BOOLEAN
    /\ exit_code \in {0, 1, 101}
    /\ save_calls \in {0, 1}
    /\ Readable => Len(Persisted) <= MaxTasks + MaxEdited
    /\ last_saved.some \in BOOLEAN
    /\ Len(order) <= MaxTasks + MaxEdited
    /\ \A p \in Procs :
          procs[p].pc \in {"idle", "save_tasks", "write_all", "exited"}
    /\ Len(syscalls) <= 4

(***************************************************************************)
(* Vocabulary of the properties.                                           *)
(***************************************************************************)
Mutating == {"add", "done", "remove", "clear"}

\* The latest invocation loaded a collection and ran the branch of `op`.
Ran(op) == cmd.op = op /\ loaded.ok

\* Position of the first task with this id, 0 when there is none.
FirstWith(ts, id) ==
    IF id \in IdsOf(ts)
    THEN CHOOSE i \in 1..Len(ts) : ts[i].id = id /\ \A j \in 1..(i - 1) : ts[j].id # id
    ELSE 0

\* Positions of the tasks that do not have this id, and the k-th of them.
Others(ts, id) == {j \in 1..Len(ts) : ts[j].id # id}
NthOther(ts, id, k) ==
    CHOOSE j \in Others(ts, id) : Cardinality({m \in Others(ts, id) : m < j}) = k - 1

Distinct(ts) == \A i, j \in 1..Len(ts) : i # j => ts[i].id # ts[j].id

(***************************************************************************)
(* C1.  Ids assigned by Add.                                               *)
(***************************************************************************)
\* C1 as stated: in a run that starts without a file, the id a successful Add
\* assigns is strictly greater than every id assigned by an earlier Add, also
\* those of tasks removed since.
C1_NeverReused ==
    [][(cmd'.op = "add" /\ result' = "ok") =>
           \A id \in assigned' : id > max_issued]_vars

\* C1 amended: in a run that starts without a file, the id an Add assigns is
\* strictly greater than the id of every task that is in the collection at
\* that time, and is 1 + the largest of them: an id whose task is gone can be
\* assigned again.
C1_AboveCurrentIds ==
    (cmd.op = "add" /\ assigned # {}) =>
        \A id \in assigned :
            /\ \A i \in 1..Len(loaded.tasks) : id > loaded.tasks[i].id
            /\ id >= 1
            /\ id - 1 \in IdsOf(loaded.tasks) \cup {0}

\* An Add on a non-empty collection assigned an id below one assigned before.
C1_Witness ==
    /\ cmd.op = "add" /\ result = "ok"
    /\ loaded.tasks # <<>>
    /\ \E id \in assigned : id < max_issued

(***************************************************************************)
(* C2.  Ids on disk are pairwise distinct.                                 *)
(***************************************************************************)
\* C2: in a run that starts without a file, no two tasks of the persisted
\* collection have the same id.
C2_DistinctIds == Readable => Distinct(Persisted)

\* Two tasks are on disk, the second added when an id above both had been
\* assigned and removed before.
C2_Witness ==
    /\ Ran("add") /\ result = "ok"
    /\ Readable /\ Len(Persisted) >= 2
    /\ MaxOf(Persisted) < max_issued

(***************************************************************************)
(* C3.  A failed save leaves the file as it was.                           *)
(***************************************************************************)
\* C3 as stated: when a mutating command ends in a save error, the collection
\* on disk is what it was before the invocation.
C3_FailedSaveKeepsFile ==
    (cmd.op \in Mutating /\ result = "save_error") =>
        /\ disk = before
        /\ load_tasks(disk, TRUE) = load_tasks(before, TRUE)

(***************************************************************************)
(* C4.  Done and Remove of an id that is not there.                        *)
(***************************************************************************)
\* C4: Done(id) and Remove(id) on a loaded collection without a task of that
\* id end with the not-found error and status 1, never call save_tasks and
\* leave the file untouched.
C4_NotFound ==
    ((Ran("done") \/ Ran("remove")) /\ cmd.id \notin IdsOf(loaded.tasks)) =>
        /\ result = "not_found"
        /\ exit_code = 1
        /\ stdout = <<>>
        /\ stderr = <<"Error: Task #" \o ToString(cmd.id) \o " not found.">>
        /\ save_calls = 0
        /\ disk = before

\* Done missed on a collection that holds other tasks.
C4_Witness ==
    /\ Ran("done")
    /\ loaded.tasks # <<>>
    /\ cmd.id \notin IdsOf(loaded.tasks)
    /\ result = "not_found"

(***************************************************************************)
(* C5.  The id Add assigns to a collection it did not build itself.        *)
(***************************************************************************)
\* C5 as stated: for any loaded collection, also one with the largest
\* representable id in it, the id that Add assigns is strictly greater than
\* every id in the collection.
C5_AboveEveryLoadedId ==
    Ran("add") =>
        \A id \in assigned : \A i \in 1..Len(loaded.tasks) : id > loaded.tasks[i].id

(***************************************************************************)
(* C6.  The effect of Add.                                                 *)
(***************************************************************************)
\* C6 as stated: unless the save fails, Add on a loaded collection C leaves
\* C followed by one task with id max(C) + 1 (1 for the empty C), the
\* arguments joined with single spaces as description and done = false.
C6_AppendsMaxPlusOne ==
    (Ran("add") /\ result # "save_error") =>
        /\ result = "ok"
        /\ Readable
        /\ Persisted =
             Append(loaded.tasks,
                    Task(MaxOf(loaded.tasks) + 1, join(cmd.description, " "), FALSE))

C8_DoneIdempotent ==
    (Ran("done") /\ FirstWith(loaded.tasks, cmd.id) # 0
       /\ loaded.tasks[FirstWith(loaded.tasks, cmd.id)].done) =>
        /\ result \in {"ok", "save_error"}
        /\ tasks = loaded.tasks
        /\ result = "ok" =>
              /\ exit_code = 0
              /\ Readable
              /\ Persisted = loaded.tasks
              /\ disk = before

\* Done succeeded on a task that was done, in a collection of two.
C8_Witness ==
    /\ Ran("done") /\ result = "ok"
    /\ Len(loaded.tasks) >= 2
    /\ FirstWith(loaded.tasks, cmd.id) # 0
    /\ loaded.tasks[FirstWith(loaded.tasks, cmd.id)].done

(***************************************************************************)
(* C9.  Done after Remove.                                                 *)
(***************************************************************************)
\* C9: the Done(id) that follows a successful Remove(id) fails: with the
\* not-found error whenever it could load the file, and without touching it.
C9_DoneAfterRemove ==
    (cmd.op = "done" /\ prior = [op |-> "remove", id |-> cmd.id]) =>
        /\ exit_code = 1
        /\ disk = before
        /\ loaded.ok => result = "not_found"

\* Done(id) right after Remove(id), where Remove left another task behind.
C9_Witness ==
    /\ Ran("done")
    /\ prior = [op |-> "remove", id |-> cmd.id]
    /\ result = "not_found"
    /\ loaded.tasks # <<>>

(***************************************************************************)
(* C10.  Clear.                                                            *)
(***************************************************************************)
\* C10: after a successful Clear the file holds the empty collection, and
\* the List that follows prints the no-tasks notice and nothing else.
C10_ClearEmpties ==
    /\ (cmd.op = "clear" /\ result = "ok") =>
           load_tasks(disk, TRUE) = [ok |-> TRUE, tasks |-> <<>>]
    /\ (Ran("list") /\ prior.op = "clear") =>
           /\ loaded.tasks = <<>>
           /\ stdout = <<"No tasks found.">>
           /\ exit_code = 0

\* List ran right after a successful Clear, on the file Clear wrote, in a
\* run in which tasks had been added.
C10_Witness ==
    /\ Ran("list") /\ prior.op = "clear"
    /\ stdout = <<"No tasks found.">>
    /\ before = FileOf(<<LBracket, RBracket>>)
    /\ max_issued >= 1

(***************************************************************************)
(* C11.  List is a pure read.                                              *)
(***************************************************************************)
\* C11: List never calls save_tasks and leaves the file as it found it; when
\* there is no file and the load goes through, List ends with status 0,
\* prints the no-tasks notice and there is still no file.
C11_ListPureRead ==
    cmd.op = "list" =>
        /\ save_calls = 0
        /\ disk = before
        /\ (loaded.ok /\ ~before.exists) =>
              /\ result = "ok"
              /\ exit_code = 0
              /\ stdout = <<"No tasks found.">>
              /\ stderr = <<>>
              /\ ~disk.exists

\* List ran on the first run, when there was no file.
C11_Witness ==
    /\ Ran("list")
    /\ ~before.exists
    /\ ~disk.exists
    /\ stdout = <<"No tasks found.">>

(***************************************************************************)
(* C12.  Descriptions on disk.                                             *)
(***************************************************************************)
\* C12 as stated: in a run that starts without a file, every task of the
\* persisted collection has a non-empty description, also after an Add with
\* no argument or with empty arguments only.
C12_NonEmptyDescriptions ==
    Readable => \A i \in 1..Len(Persisted) : Persisted[i].description # ""

(***************************************************************************)
(* C13.  Exit status.                                                      *)
(***************************************************************************)
\* The command did what it is for: the load went through, Done and Remove
\* found their task, and the branch ended neither in a failed save nor in a
\* panic.
CommandSucceeded ==
    /\ loaded.ok
    /\ cmd.op \in {"done", "remove"} => cmd.id \in IdsOf(loaded.tasks)
    /\ result \notin {"save_error", "panic"}

\* C13 as stated: the exit status of an invocation is 0 exactly when the
\* command succeeded and 1 in every other case, and something is printed on
\* stdout only when the status is 0.
C13_ExitStatus ==
    cmd.op # "none" =>
        /\ exit_code = 0 <=> CommandSucceeded
        /\ ~CommandSucceeded => exit_code = 1
        /\ stdout # <<>> => exit_code = 0

(***************************************************************************)
(* C14.  A file that does not parse.                                       *)
(***************************************************************************)
\* The file is there and is not the JSON text of a Vec<Task>.
Malformed(file) == file.exists /\ ~from_reader(file.data).ok

\* C14: when tasks.json exists and does not parse, every command, Clear
\* too, ends with the load error and status 1 before its branch runs:
\* nothing is assigned, nothing is printed on stdout, save_tasks is not
\* called and the file is left as it was.
C14_MalformedAborts ==
    (cmd.op # "none" /\ Malformed(before)) =>
        /\ result = "load_error"
        /\ exit_code = 1
        /\ stdout = <<>>
        /\ stderr = <<"Error loading tasks">>
        /\ assigned = {}
        /\ save_calls = 0
        /\ disk = before

\* Clear ran on a file that holds the beginning of an array only.
C14_Witness ==
    /\ cmd.op = "clear"
    /\ Malformed(before)
    /\ before.data # <<>>
    /\ exit_code = 1
    /\ disk = before

(***************************************************************************)
(* C15.  Two invocations at the same time.                                 *)
(***************************************************************************)
\* Both processes ran a mutating command and both came through save_tasks.
BothSaved ==
    \A p \in Procs :
        /\ procs[p].pc = "exited"
        /\ procs[p].result = "ok"
        /\ procs[p].cmd.op \in Mutating

\* The process whose write_all came last.
LastWriter == syscalls[Len(syscalls)].p

\* The collection the command of p makes of the collection p loaded.
OwnResult(p) ==
    LET c == procs[p].cmd
        snapshot == procs[p].loaded
    IN CASE c.op = "add" ->
              Append(snapshot,
                     Task(MaxOf(snapshot) + 1, join(c.description, " "), FALSE))
         [] c.op = "clear" -> <<>>
         [] c.op = "remove" ->
              [k \in 1..Cardinality(Others(snapshot, c.id)) |->
                  snapshot[NthOther(snapshot, c.id, k)]]
         [] OTHER ->
              [k \in 1..Len(snapshot) |->
                  IF k = FirstWith(snapshot, c.id)
                  THEN [snapshot[k] EXCEPT !.done = TRUE] ELSE snapshot[k]]

\* C15 as stated: when two invocations have saved concurrently, the
\* collection on disk is exactly the one the invocation that wrote last
\* saved, computed from its own snapshot.
C15_LastWriteWins ==
    BothSaved =>
        /\ procs[LastWriter].tasks = OwnResult(LastWriter)
        /\ Readable
        /\ Persisted = OwnResult(LastWriter)

(***************************************************************************)
(* C16.  Round trip through tasks.json.                                    *)
(***************************************************************************)
\* C16: the file a successful save_tasks leaves loads as the collection that
\* was saved, the same tasks in the same order, whatever the collection; and
\* an invocation that loads a file loads the collection of the last
\* successful save.
C16_RoundTrip ==
    /\ (save_calls = 1 /\ result = "ok") =>
           load_tasks(disk, TRUE) = [ok |-> TRUE, tasks |-> tasks]
    /\ (cmd.op # "none" /\ loaded.ok /\ last_saved.some) =>
           loaded.tasks = last_saved.tasks

\* An invocation loaded two tasks, one of them done, that an earlier
\* invocation had saved.
C16_Witness ==
    /\ cmd.op # "none" /\ loaded.ok
    /\ last_saved.some
    /\ save_calls = 0
    /\ Len(loaded.tasks) = 2
    /\ loaded.tasks = last_saved.tasks
    /\ \E i \in 1..2 : loaded.tasks[i].done

(***************************************************************************)
(* C17.  Display order.                                                    *)
(***************************************************************************)
\* C17: in a run that starts without a file, List prints one line for each
\* task that was added and not removed since, in the order of the Adds, the
\* line being "[x] id: description" for a task that is done and
\* "[ ] id: description" for one that is not.
C17_DisplayOrder ==
    (Ran("list") /\ order # <<>>) =>
        /\ Len(stdout) = Len(order)
        /\ Len(loaded.tasks) = Len(order)
        /\ \A k \in 1..Len(order) :
              stdout[k] = (IF loaded.tasks[k].done THEN "[x]" ELSE "[ ]")
                             \o " " \o ToString(order[k]) \o ": "
                             \o loaded.tasks[k].description

\* List printed two tasks, the first of them done, after the task that had
\* been added first was removed.
C17_Witness ==
    /\ Ran("list")
    /\ Len(stdout) = 2
    /\ order = <<2, 3>>
    /\ loaded.tasks[1].done
    /\ ~loaded.tasks[2].done

(***************************************************************************)
(* C18.  The frame of Done.                                                *)
(***************************************************************************)
\* C18: a successful Done(id) leaves a collection of the same length in which
\* the first task with that id is done and every task is otherwise what it
\* was: same id, same description, and for all other tasks, those with the
\* same id too, the same done flag.
C18_DoneFrame ==
    (Ran("done") /\ result = "ok") =>
        /\ Readable
        /\ Len(Persisted) = Len(loaded.tasks)
        /\ \A k \in 1..Len(loaded.tasks) :
              /\ Persisted[k].id = loaded.tasks[k].id
              /\ Persisted[k].description = loaded.tasks[k].description
              /\ Persisted[k].done =
                    IF k = FirstWith(loaded.tasks, cmd.id)
                    THEN TRUE ELSE loaded.tasks[k].done

\* Done marked the first of two tasks that have the same id; the second one
\* is still not done.
C18_Witness ==
    /\ Ran("done") /\ result = "ok"
    /\ Len(loaded.tasks) = 2
    /\ loaded.tasks[1].id = cmd.id /\ loaded.tasks[2].id = cmd.id
    /\ ~loaded.tasks[1].done
    /\ Readable
    /\ Persisted[1].done /\ ~Persisted[2].done

(***************************************************************************)
(* C19.  Done flags are never reset.                                       *)
(***************************************************************************)
\* The invocation removed the tasks with this id: a successful Remove(id) or
\* Clear.
RemovedOrCleared(id) ==
    /\ result = "ok"
    /\ cmd.op = "clear" \/ (cmd.op = "remove" /\ cmd.id = id)

\* C19: a task that is done when an invocation loads the file is on disk
\* and done when the invocation is through and the file is readable, unless
\* the invocation is a successful Remove of its id or a successful Clear
\* (when the ids are distinct, no task with its id is then not done); List
\* shows every done task with [x]; and the task a successful Add appends is
\* not done.
C19_DoneStays ==
    /\ (cmd.op # "none" /\ loaded.ok /\ Readable) =>
           \A i \in 1..Len(loaded.tasks) :
              (loaded.tasks[i].done /\ ~RemovedOrCleared(loaded.tasks[i].id)) =>
                 /\ \E j \in 1..Len(Persisted) :
                        /\ Persisted[j].id = loaded.tasks[i].id
                        /\ Persisted[j].done
                 /\ Distinct(Persisted) =>
                        \A j \in 1..Len(Persisted) :
                            Persisted[j].id = loaded.tasks[i].id => Persisted[j].done
    /\ Ran("list") =>
           \A k \in 1..Len(loaded.tasks) :
              loaded.tasks[k].done =>
                 stdout[k] = "[x] " \o ToString(loaded.tasks[k].id) \o ": "
                                \o loaded.tasks[k].description
    /\ (Ran("add") /\ result = "ok") =>
           /\ Readable
           /\ Len(Persisted) = Len(loaded.tasks) + 1
           /\ ~Persisted[Len(Persisted)].done

\* Done marked a task while another task, done before, stayed done.
C19_Witness ==
    /\ Ran("done") /\ result = "ok"
    /\ Readable
    /\ \E i, j \in 1..Len(loaded.tasks) :
          /\ loaded.tasks[i].id # loaded.tasks[j].id
          /\ loaded.tasks[i].done /\ Persisted[i].done
          /\ ~loaded.tasks[j].done /\ Persisted[j].done
====
